---- MODULE Spec2Model ----
(***************************************************************************)
(* RateLock auditor: the RateSync pipeline (service-ratesync/ratesync.py)  *)
(* and the ConversionEngine (service-conversion/conversionengine.py) over  *)
(* the two DynamoDB tables they share.                                     *)
(*                                                                         *)
(* Representation.                                                         *)
(*   - A string is a sequence of one-character strings, so that upper()    *)
(*     and strip() are computed, not assumed.                              *)
(*   - A Python dict is a function; a missing key is a key outside its     *)
(*     DOMAIN, and d.get(k, default) is Get(d, k, default).                *)
(*   - A Decimal amount is [u |-> whole units, m |-> thousandths 0..999],  *)
(*     its value u + m/1000; arithmetic is done on Mills, the value in     *)
(*     thousandths.  A rate is an integer number of hundredths.  The       *)
(*     arithmetic between them is the decimal module's, on digits.         *)
(*   - An instant is <<minute, second, microsecond>>; "minute" stands for  *)
(*     the whole %Y%m%d-%H%M prefix.                                       *)
(***************************************************************************)
EXTENDS Integers, Sequences, FiniteSets, TLC

VARIABLES
    now,        \* the UTC clock, as last read by any component
    rateCache,  \* RateCacheTable: RateSnapshotID -> item
    auditLog,   \* ConversionAuditLogTable: AuditLogTransactionID -> item
    sync,       \* per sync invocation slot: position and locals of sync_rates
    conv,       \* per convert call: position and locals of perform_conversion
    captured,   \* history: RateSnapshotID -> the instant its writer took as now
    lastSynced, \* history: <<that instant>> of the latest sync that returned True
    calc        \* harness for the pure functions: arguments, then results

vars == <<now, rateCache, auditLog, sync, conv, captured, lastSynced, calc>>

None == "None"

(***************************************************************************)
(* Bounds of the model.                                                    *)
(***************************************************************************)
MaxMinute == 0
MaxSecond == 1
MaxMicro == 1
NumSyncers == 2
NumCalls == 2
NumSuffixes == 2

(***************************************************************************)
(* Strings and dicts.                                                      *)
(***************************************************************************)
Get(d, k, default) == IF k \in DOMAIN d THEN d[k] ELSE default

UpperChar(ch) ==
    CASE ch = "u" -> "U" [] ch = "s" -> "S" [] ch = "d" -> "D"
      [] ch = "e" -> "E" [] ch = "r" -> "R" [] ch = "g" -> "G"
      [] ch = "b" -> "B" [] ch = "p" -> "P" [] ch = "x" -> "X"
      [] OTHER -> ch

Upper(s) == [i \in 1..Len(s) |-> UpperChar(s[i])]

RECURSIVE LStrip(_)
LStrip(s) == IF s # <<>> /\ Head(s) = " " THEN LStrip(Tail(s)) ELSE s

RECURSIVE RStrip(_)
RStrip(s) ==
    IF s # <<>> /\ s[Len(s)] = " " THEN RStrip(SubSeq(s, 1, Len(s) - 1)) ELSE s

Strip(s) == RStrip(LStrip(s))

EUR == <<"E", "U", "R">>
USD == <<"U", "S", "D">>
GBP == <<"G", "B", "P">>
XXX == <<"X", "X", "X">>

(***************************************************************************)
(* The clock.                                                              *)
(***************************************************************************)
Instants == (0..MaxMinute) \X (0..MaxSecond) \X (0..MaxMicro)

TimeLeq(a, b) ==
    \/ a[1] < b[1]
    \/ a[1] = b[1] /\ a[2] < b[2]
    \/ a[1] = b[1] /\ a[2] = b[2] /\ a[3] <= b[3]

\* datetime.now(timezone.utc): any instant not before the last one read.
Later(t) == {u \in Instants : TimeLeq(t, u)}

(***************************************************************************)
(* RateSync.                                                               *)
(***************************************************************************)
\* strftime("%Y%m%d-%H%M%fUTC"): the date, hour and minute, then %f, the
\* microsecond of the second.  The format has no %S.  Every field has a fixed
\* width, so string order is the order of <<minute prefix, microsecond>>.
generate_snapshot_id(t) == <<t[1], t[3]>>

IdLess(a, b) == a[1] < b[1] \/ (a[1] = b[1] /\ a[2] < b[2])

\* get_item and 'Item' in response; a store error is logged and read as absent.
check_existing_snapshot(table, snapshot_id, storeOk) ==
    IF storeOk THEN snapshot_id \in DOMAIN table ELSE FALSE

PutItem(table, key, item) ==
    [k \in DOMAIN table \cup {key} |-> IF k = key THEN item ELSE table[k]]

(***************************************************************************)
(* The rate feed.  A JSON value of the payload is tagged with its Python   *)
(* type: [j |-> "num", v |-> hundredths] for an int or float,              *)
(* [j |-> "nan"], [j |-> "inf"], [j |-> "bool"], [j |-> "str"],            *)
(* [j |-> "null"], and [j |-> "dict", d |-> function] for an object.       *)
(* The parsed body is a record with some of the members base and rates.    *)
(***************************************************************************)
Num(v) == [j |-> "num", v |-> v]
Dict(f) == [j |-> "dict", d |-> f]
NoData == [none |-> TRUE]

PayloadA == [base |-> EUR, rates |-> Dict(USD :> Num(110) @@ GBP :> Num(85))]
PayloadB == [base |-> EUR, rates |-> Dict(USD :> Num(120) @@ GBP :> Num(80))]
PayloadC == [base |-> EUR, rates |-> Dict(USD :> Num(120) @@ GBP :> Num(90))]
PayloadUsd == [base |-> USD, rates |-> Dict(EUR :> Num(90) @@ GBP :> Num(75))]

\* Payloads a feed may also answer with: no 'rates' member, an empty one, and
\* one rate that is NaN, Infinity, a string, true, zero or negative.
PayloadNoRates == [base |-> EUR]
PayloadEmpty == [base |-> EUR, rates |-> Dict(<<>>)]
PayloadWith(rate) == [base |-> EUR, rates |-> Dict(USD :> Num(110) @@ GBP :> rate)]
PayloadNaN == PayloadWith([j |-> "nan"])
PayloadInf == PayloadWith([j |-> "inf"])
PayloadStr == PayloadWith([j |-> "str"])
PayloadBool == PayloadWith([j |-> "bool"])
PayloadZero == PayloadWith(Num(0))
PayloadNeg == PayloadWith(Num(-85))

\* One attempt of the loop ends in a timeout, an HTTP error (transport or
\* non-2xx status), an unparseable body, any other exception, or a parsed body.
Timeout == [k |-> "timeout"]
HttpError == [k |-> "http"]
JsonError == [k |-> "json"]
Unexpected == [k |-> "other"]
Body(data) == [k |-> "ok", data |-> data]

\* Line 117, inside the try: len(data.get('rates', {})) raises when 'rates'
\* is present and has no len().
LogLineRaises(data) ==
    "rates" \in DOMAIN data /\ data.rates.j \notin {"dict", "str"}

\* fetch_loop retrying an unparseable body like a transport error.
RECURSIVE fetch_loop_retries_json(_, _, _, _)
fetch_loop_retries_json(feed, attempt, max_retries, waits) ==
    IF attempt >= max_retries
    THEN [data |-> NoData, attempts |-> attempt, waits |-> waits]
    ELSE LET o == feed[attempt + 1] IN
         IF o.k = "ok" /\ ~LogLineRaises(o.data)
         THEN [data |-> o.data, attempts |-> attempt + 1, waits |-> waits]
         ELSE fetch_loop_retries_json(feed, attempt + 1, max_retries,
                                      IF attempt < max_retries - 1
                                      THEN Append(waits, 2 ^ attempt)
                                      ELSE waits)

\* fetch_loop sleeping after every failed attempt, the last included.
RECURSIVE fetch_loop_sleeps(_, _, _, _)
fetch_loop_sleeps(feed, attempt, max_retries, waits) ==
    IF attempt >= max_retries
    THEN [data |-> NoData, attempts |-> attempt, waits |-> waits]
    ELSE LET o == feed[attempt + 1] IN
         IF o.k = "ok" /\ ~LogLineRaises(o.data)
         THEN [data |-> o.data, attempts |-> attempt + 1, waits |-> waits]
         ELSE IF o.k = "json"
         THEN [data |-> NoData, attempts |-> attempt + 1, waits |-> waits]
         ELSE fetch_loop_sleeps(feed, attempt + 1, max_retries,
                                Append(waits, 2 ^ attempt))

RECURSIVE fetch_loop(_, _, _, _)
fetch_loop(feed, attempt, max_retries, waits) ==
    IF attempt >= max_retries
    THEN [data |-> NoData, attempts |-> attempt, waits |-> waits]
    ELSE LET o == feed[attempt + 1] IN
         IF o.k = "ok" /\ ~LogLineRaises(o.data)
         THEN [data |-> o.data, attempts |-> attempt + 1, waits |-> waits]
         ELSE IF o.k = "json"
         THEN [data |-> NoData, attempts |-> attempt + 1, waits |-> waits]
         ELSE fetch_loop(feed, attempt + 1, max_retries,
                         IF attempt < max_retries - 1
                         THEN Append(waits, 2 ^ attempt)
                         ELSE waits)

MaxRetries == 3

\* feed[i] is what the i-th GET of this call meets.
fetch_rates_from_frankfurter(feed) == fetch_loop(feed, 0, MaxRetries, <<>>)

\* Python truthiness of the fetched value: None and {} are falsy.
Truthy(data) == "none" \notin DOMAIN data /\ DOMAIN data # {}

IsNumber(x) == x.j \in {"num", "nan", "inf", "bool"}

\* validate_rates_data that only asks for a payload.
validate_rates_data_lax(data) == Truthy(data)

validate_rates_data(data) ==
    /\ Truthy(data)
    /\ "rates" \in DOMAIN data
    /\ data.rates.j = "dict"
    /\ DOMAIN data.rates.d # {}
    /\ \A c \in DOMAIN data.rates.d : IsNumber(data.rates.d[c])

\* Decimal(str(rate)) raises for a bool ('True'); a NaN or Infinity Decimal is
\* refused by the table's serializer.  Either way the put is not made.
Storable(rate) == rate.j = "num"

\* rates_data.get('rates', {}).items(): raises unless a dict.
HasItems(data) == "rates" \in DOMAIN data => data.rates.j = "dict"

RatesOf(data) == IF "rates" \in DOMAIN data THEN data.rates.d ELSE <<>>

cache_item(snapshot_id, data, t) ==
    LET fed == RatesOf(data)
        decimal_rates == [c \in DOMAIN fed \cup {EUR} |->
                             IF c = EUR THEN 100 ELSE fed[c].v]
    IN [RateSnapshotID |-> snapshot_id,
        BaseCurrency |-> Get(data, "base", EUR),
        Rates |-> decimal_rates,
        FetchTimestamp |-> t]

\* store_rates_in_cache that reports a store error after the item went in.
store_rates_in_cache_late_error(table, snapshot_id, data, t, storeOk) ==
    IF HasItems(data) /\ \A c \in DOMAIN RatesOf(data) : Storable(RatesOf(data)[c])
    THEN [ok |-> storeOk,
          table |-> PutItem(table, snapshot_id, cache_item(snapshot_id, data, t))]
    ELSE [ok |-> FALSE, table |-> table]

\* Returns the success flag and the table after the call.
store_rates_in_cache(table, snapshot_id, data, t, storeOk) ==
    IF /\ storeOk
       /\ HasItems(data)
       /\ \A c \in DOMAIN RatesOf(data) : Storable(RatesOf(data)[c])
    THEN [ok |-> TRUE, table |-> PutItem(table, snapshot_id,
                                         cache_item(snapshot_id, data, t))]
    ELSE [ok |-> FALSE, table |-> table]

(***************************************************************************)
(* sync_rates, one action per store or feed round trip.                    *)
(***************************************************************************)
Syncers == 1..NumSyncers

\* at is the instant generate_snapshot_id read; feed is what the GETs of the
\* call met; data is the local rates_data
\* while the call runs; existed, fetched and wrote
\* record whether the candidate id was in the table as the call started,
\* whether the feed was called and whether the put was made.
IdleSync ==
    [pc |-> "idle", id |-> <<>>, at |-> <<>>, feed |-> <<>>, data |-> NoData,
     ret |-> None,
     existed |-> FALSE, fetched |-> FALSE, wrote |-> FALSE]

\* Lines 215-220: the candidate id and the existence check.
SyncBegin(p) ==
    /\ sync[p].pc = "idle"
    /\ \E t \in Later(now), storeOk \in BOOLEAN :
         LET snapshot_id == generate_snapshot_id(t)
             exists == check_existing_snapshot(rateCache, snapshot_id, storeOk)
         IN /\ now' = t
            /\ sync' = [sync EXCEPT ![p] =
                 [IdleSync EXCEPT
                    !.pc = IF exists THEN "done" ELSE "fetch",
                    !.id = snapshot_id,
                    !.at = t,
                    !.ret = IF exists THEN "True" ELSE None,
                    !.existed = snapshot_id \in DOMAIN rateCache]]
            /\ lastSynced' = IF exists THEN <<t>> ELSE lastSynced
    /\ UNCHANGED <<rateCache, auditLog, conv, captured, calc>>

\* Lines 222-231: the fetch with its retries, then the validation.
SyncFetch(p, feeds) ==
    /\ sync[p].pc = "fetch"
    /\ \E feed \in feeds :
         LET rates_data == fetch_rates_from_frankfurter(feed).data
             good == Truthy(rates_data) /\ validate_rates_data(rates_data)
         IN sync' = [sync EXCEPT ![p].pc = IF good THEN "store" ELSE "done",
                                 ![p].data = IF good THEN rates_data ELSE NoData,
                                 ![p].fetched = TRUE,
                                 ![p].feed = feed,
                                 ![p].ret = IF good THEN None ELSE "False"]
    /\ UNCHANGED <<now, rateCache, auditLog, conv, captured, lastSynced, calc>>

\* Lines 233-239: the put and the result.
SyncStore(p) ==
    /\ sync[p].pc = "store"
    /\ \E t \in Later(now), storeOk \in BOOLEAN :
         LET r == store_rates_in_cache(rateCache, sync[p].id, sync[p].data,
                                       t, storeOk)
         IN /\ now' = t
            /\ rateCache' = r.table
            /\ captured' = IF r.ok THEN PutItem(captured, sync[p].id, sync[p].at)
                            ELSE captured
            /\ lastSynced' = IF r.ok THEN <<sync[p].at>> ELSE lastSynced
            /\ sync' = [sync EXCEPT ![p].pc = "done",
                                    ![p].data = NoData,
                                    ![p].wrote = r.ok,
                                    ![p].ret = IF r.ok THEN "True" ELSE "False"]
    /\ UNCHANGED <<auditLog, conv, calc>>

(***************************************************************************)
(* Decimal arithmetic.  A value of the arithmetic is [neg, c, e]: the sign, *)
(* the coefficient as a sequence of decimal digits, most significant       *)
(* first, and the exponent; its magnitude is c * 10^e.  The digits are     *)
(* kept as a sequence because the context works at 28 significant digits.  *)
(***************************************************************************)
Dec(units, mills) == [u |-> units, m |-> mills]
Mills(d) == d.u * 1000 + d.m
FromMills(x) == [u |-> x \div 1000, m |-> x % 1000]

DecLeq(a, b) == a.u < b.u \/ (a.u = b.u /\ a.m <= b.m)

Abs(x) == IF x < 0 THEN -x ELSE x

\* getcontext().prec, the default context of the decimal module.
Prec == 28

\* The element of a one-element set: Only({F(x) : x \in {e}}) is F(e) with e
\* worked out once.
Only(S) == CHOOSE x \in S : TRUE

RECURSIVE DigitsOf(_)
DigitsOf(n) == IF n = 0 THEN <<>> ELSE Append(DigitsOf(n \div 10), n % 10)

\* The value of the first n digits of s.
RECURSIVE ValueUpTo(_, _)
ValueUpTo(s, n) == IF n = 0 THEN 0 ELSE ValueUpTo(s, n - 1) * 10 + s[n]

ValueOf(s) == ValueUpTo(s, Len(s))

RECURSIVE StripZeros(_)
StripZeros(s) == IF s # <<>> /\ Head(s) = 0 THEN StripZeros(Tail(s)) ELSE s

\* s + 1 on digits: the last digit below 9 goes up, the nines after it to 0.
Incr(s) ==
    LET low == {i \in 1..Len(s) : s[i] < 9}
        j == IF low = {} THEN 0
             ELSE CHOOSE i \in low : \A k \in low : k <= i
    IN IF j = 0 THEN <<1>> \o [i \in 1..Len(s) |-> 0]
       ELSE [i \in 1..Len(s) |->
                IF i < j THEN s[i] ELSE IF i = j THEN s[i] + 1 ELSE 0]

\* The first i digits of s, times k, plus carry.
RECURSIVE TimesUpTo(_, _, _, _)
TimesUpTo(s, k, i, carry) ==
    IF i = 0 THEN DigitsOf(carry)
    ELSE Append(TimesUpTo(s, k, i - 1, (s[i] * k + carry) \div 10),
                (s[i] * k + carry) % 10)

\* s * k + carry on digits, k a small integer.
Times(s, k, carry) == TimesUpTo(s, k, Len(s), carry)

\* The digits of r/d after the point, r < d, up to the one that makes want
\* significant digits (have of them are before the point), and the
\* remainder.  digs holds the digits found so far.
RECURSIVE DivDigits(_, _, _, _, _)
DivDigits(r, d, have, want, digs) ==
    IF r = 0 \/ (IF have > 0 THEN have + Len(digs)
                              ELSE Len(StripZeros(digs))) >= want
    THEN [digs |-> digs, rem |-> r]
    ELSE Only({DivDigits(x[1], d, have, want, x[2]) :
                 x \in {<<(r * 10) % d, Append(digs, (r * 10) \div d)>>}})

\* The context's rounding of a result: to Prec significant digits,
\* ROUND_HALF_EVEN.  more says that the exact result has non-zero digits below
\* those of s.
Round(neg, c, e, more) ==
    LET keep == SubSeq(c, 1, Prec)
        drop == SubSeq(c, Prec + 1, Len(c))
        rest == more \/ \E i \in 2..Len(drop) : drop[i] # 0
        up == \/ drop[1] > 5
              \/ drop[1] = 5 /\ (rest \/ keep[Prec] % 2 = 1)
    IN IF Len(c) <= Prec THEN [neg |-> neg, c |-> c, e |-> e]
       ELSE [neg |-> neg, c |-> IF up THEN Incr(keep) ELSE keep,
             e |-> e + Len(drop)]

Fix(neg, s, e, more) == Only({Round(neg, c, e, more) : c \in {StripZeros(s)}})

\* Decimal division of the integers n and d # 0, scaled by 10^e.
DecDivide(n, d, e) ==
    LET whole == DigitsOf(Abs(n) \div Abs(d))
    IN Only({Fix((n < 0) # (d < 0), whole \o frac.digs, e - Len(frac.digs),
                 frac.rem # 0) :
               frac \in {DivDigits(Abs(n) % Abs(d), Abs(d), Len(whole),
                                   Prec + 1, <<>>)}})

\* Decimal product of x and the integer k scaled by 10^e.
DecTimes(x, k, e) ==
    Only({Fix(v.neg # (k < 0), Times(v.c, Abs(k), 0), v.e + e, FALSE) :
            v \in {x}})

\* The Decimal of an amount in thousandths.
DecOfMills(n) == [neg |-> n < 0, c |-> DigitsOf(Abs(n)), e |-> -3]

\* quantize with ROUND_DOWN in place of ROUND_HALF_UP.
QuantizeDown(x) ==
    LET n == -2 - x.e
        len == Len(x.c) - n
        keep == IF len > 0 THEN SubSeq(x.c, 1, len) ELSE <<>>
        cents == IF n <= 0 THEN ValueOf(x.c) * 10 ^ (-n) ELSE ValueOf(keep)
    IN FromMills(10 * (IF x.neg THEN -cents ELSE cents))

\* x.quantize(Decimal('0.01'), rounding=ROUND_HALF_UP), as an amount: the
\* digits below the hundredths are dropped and the result is moved away from
\* zero when the first of them is 5 or more.
HalfUp(x) ==
    LET n == -2 - x.e
        len == Len(x.c) - n
        keep == IF len > 0 THEN SubSeq(x.c, 1, len) ELSE <<>>
        up == len >= 0 /\ len < Len(x.c) /\ x.c[len + 1] >= 5
        cents == IF n <= 0 THEN ValueOf(x.c) * 10 ^ (-n)
                 ELSE ValueOf(keep) + (IF up THEN 1 ELSE 0)
    IN FromMills(10 * (IF x.neg THEN -cents ELSE cents))

Quantize(x) == Only({HalfUp(v) : v \in {x}})

\* float(x) and its JSON text: the shortest decimal that reads back as the same
\* double, which is x itself for a decimal of at most 15 significant digits;
\* an amount here has at most 13.  What is lost is the exponent (100 and 100.0
\* print alike), which [u, m] does not hold either.
FloatOf(x) == Dec(x.u, x.m)

(***************************************************************************)
(* ConversionEngine.                                                       *)
(***************************************************************************)
ScanLimit == 50
MaxAmountUnits == 1000000000

\* The sets of k elements of S, grown one element at a time.
RECURSIVE Grown(_, _)
Grown(S, k) ==
    IF k = 0 THEN {{}}
    ELSE UNION {{T \cup {x} : x \in S \ T} : T \in Grown(S, k - 1)}

\* The subsets of S with k elements, built from the smaller of the subset and
\* its complement.
KSubsets(S, k) ==
    LET n == Cardinality(S)
    IN IF k > n THEN {}
       ELSE IF 2 * k <= n THEN Grown(S, k)
       ELSE {S \ R : R \in Grown(S, n - k)}

\* scan(Limit=50): the items of one page, at most Limit of them, in no order.
\* The response's LastEvaluatedKey is not read, so one page is all there is.
ScanPages(table, limit) ==
    IF Cardinality(DOMAIN table) <= limit
    THEN {DOMAIN table}
    ELSE KSubsets(DOMAIN table, limit)

\* max(items, key=lambda x: x['RateSnapshotID'])
MaxId(ids) == CHOOSE i \in ids : \A k \in ids : k = i \/ IdLess(k, i)

NoSnapshot == [none |-> TRUE]

get_latest_rate_snapshot(table, page, storeOk) ==
    IF ~storeOk \/ page = {} THEN NoSnapshot
    ELSE LET latest_snapshot == table[MaxId(page)]
         IN IF DOMAIN latest_snapshot.Rates = {} THEN NoSnapshot
            ELSE latest_snapshot

\* RateSync's scan() carries no Limit: within the sizes modelled here its one
\* page holds every item.  Any exception is logged and read as no snapshot.
get_latest_snapshot(table, page, storeOk) ==
    IF ~storeOk \/ page = {} THEN NoSnapshot
    ELSE table[MaxId(page)]

\* f"audit-{int(timestamp)}-{str(uuid4())[:8]}": the second, then 8 hex digits.
generate_audit_transaction_id(t, suffix) == <<t[1], t[2], suffix>>

\* Returns the amount and the method, or raised (a division by zero).  A rate
\* is a number of hundredths.
calculate_conversion(from_currency, to_currency, amount, rates) ==
    LET f == Upper(from_currency)
        t == Upper(to_currency)
        from_rate == Get(rates, f, 100)
        to_rate == Get(rates, t, 100)
        eur_amount == DecDivide(Mills(amount), from_rate, -1)
    IN IF f = t
       THEN [raised |-> FALSE, amount |-> amount, method |-> "same_currency"]
       ELSE IF f = EUR
       THEN [raised |-> FALSE,
             amount |-> Quantize(DecTimes(DecOfMills(Mills(amount)),
                                          to_rate, -2)),
             method |-> "eur_to_target"]
       ELSE IF from_rate = 0
       THEN [raised |-> TRUE]
       ELSE IF t = EUR
       THEN [raised |-> FALSE,
             amount |-> Quantize(eur_amount),
             method |-> "source_to_eur"]
       ELSE [raised |-> FALSE,
             amount |-> Quantize(DecTimes(eur_amount, to_rate, -2)),
             method |-> "triangulation"]

\* rates_used.get(code, 1.0): a stored rate is a Decimal, the default a float,
\* which the table's serializer refuses.
audit_record(transaction_id, from_currency, to_currency, original_amount, converted_amount, rate_snapshot_id, calculation_method, rates_used, t) ==
    LET f == Upper(from_currency)
        o == Upper(to_currency)
    IN [AuditLogTransactionID |-> transaction_id,
        FromCurrency |-> f,
        ToCurrency |-> o,
        OriginalAmount |-> original_amount,
        ConvertedAmount |-> converted_amount,
        RateSnapshotID |-> rate_snapshot_id,
        ConversionTimestamp |-> t,
        CalculationMethod |-> calculation_method,
        RatesUsed |-> [c \in {f, o} |->
                         IF c \in DOMAIN rates_used
                         THEN [decimal |-> rates_used[c]]
                         ELSE [float |-> 100]]]

\* Returns the success flag and the table after the call.
create_audit_log(table, record, storeOk) ==
    IF /\ storeOk
       /\ \A c \in DOMAIN record.RatesUsed :
              "decimal" \in DOMAIN record.RatesUsed[c]
    THEN [ok |-> TRUE,
          table |-> PutItem(table, record.AuditLogTransactionID, record)]
    ELSE [ok |-> FALSE, table |-> table]

NoResponse == [none |-> TRUE]

\* Failure as the outermost handler of perform_conversion reports it: an
\* internal error whatever went wrong.
FailureInternal(status, msg, arg) ==
    [error |-> [msg |-> "Internal server error", arg |-> <<>>],
     status_code |-> 500]

Failure(status, msg, arg) ==
    [error |-> [msg |-> msg, arg |-> arg], status_code |-> status]

\* request_error with the ceiling itself refused.
request_error_below_ceiling(req) ==
    IF \/ ~req.amount.ok
       \/ DecLeq(req.amount, Dec(0, 0))
       \/ DecLeq(Dec(MaxAmountUnits, 0), req.amount)
    THEN [error |-> [msg |-> "Invalid amount. Must be a positive number.",
                     arg |-> <<>>],
          status_code |-> 400]
    ELSE IF req.from = <<>> \/ req.to = <<>>
    THEN [error |-> [msg |-> "Missing currency codes", arg |-> <<>>],
          status_code |-> 400]
    ELSE IF Len(Strip(Upper(req.from))) # 3 \/ Len(Strip(Upper(req.to))) # 3
    THEN [error |-> [msg |-> "Currency codes must be 3 characters", arg |-> <<>>],
          status_code |-> 400]
    ELSE NoResponse

\* request_error with the codes looked at before the amount.
request_error_codes_first(req) ==
    IF req.from = <<>> \/ req.to = <<>>
    THEN [error |-> [msg |-> "Missing currency codes", arg |-> <<>>],
          status_code |-> 400]
    ELSE IF Len(Strip(Upper(req.from))) # 3 \/ Len(Strip(Upper(req.to))) # 3
    THEN [error |-> [msg |-> "Currency codes must be 3 characters", arg |-> <<>>],
          status_code |-> 400]
    ELSE IF \/ ~req.amount.ok
            \/ DecLeq(req.amount, Dec(0, 0))
            \/ ~DecLeq(req.amount, Dec(MaxAmountUnits, 0))
    THEN [error |-> [msg |-> "Invalid amount. Must be a positive number.",
                     arg |-> <<>>],
          status_code |-> 400]
    ELSE NoResponse

\* Lines 191-219: the amount, then the codes.  A request is
\* [from, to, amount], the amount text either unparseable ([ok |-> FALSE]) or
\* the Decimal it parses to.
request_error(req) ==
    IF \/ ~req.amount.ok
       \/ DecLeq(req.amount, Dec(0, 0))
       \/ ~DecLeq(req.amount, Dec(MaxAmountUnits, 0))
    THEN Failure(400, "Invalid amount. Must be a positive number.", <<>>)
    ELSE IF req.from = <<>> \/ req.to = <<>>
    THEN Failure(400, "Missing currency codes", <<>>)
    ELSE IF Len(Strip(Upper(req.from))) # 3 \/ Len(Strip(Upper(req.to))) # 3
    THEN Failure(400, "Currency codes must be 3 characters", <<>>)
    ELSE NoResponse

\* Lines 232-246: the codes are upper-cased again, from the arguments.
currency_error(from_currency, to_currency, rates) ==
    LET from_currency_upper == Upper(from_currency)
        to_currency_upper == Upper(to_currency)
    IN IF from_currency_upper # EUR /\ from_currency_upper \notin DOMAIN rates
       THEN Failure(400, "Currency not supported", from_currency_upper)
       ELSE IF to_currency_upper # EUR /\ to_currency_upper \notin DOMAIN rates
       THEN Failure(400, "Currency not supported", to_currency_upper)
       ELSE NoResponse

\* conversion_result without the gate: the result whatever the audit write did.
conversion_result_ungated(audit_success, req, converted_amount, rate_snapshot_id, transaction_id, t) ==
    [converted_amount |-> FloatOf(converted_amount),
     rate_snapshot_id |-> rate_snapshot_id,
     audit_log_transaction_id |-> transaction_id,
     from_currency |-> Upper(req.from),
     to_currency |-> Upper(req.to),
     original_amount |-> FloatOf([u |-> req.amount.u, m |-> req.amount.m]),
     conversion_timestamp |-> t,
     status_code |-> 200]

\* conversion_result with the failure of the audit write raised to the caller
\* in place of a result.
conversion_result_raising(audit_success, req, converted_amount, rate_snapshot_id, transaction_id, t) ==
    IF ~audit_success
    THEN [raised |-> "Audit logging failed"]
    ELSE conversion_result_ungated(audit_success, req, converted_amount, rate_snapshot_id, transaction_id, t)

\* Lines 263-280: the gate on the audit write, then the result.
conversion_result(audit_success, req, converted_amount, rate_snapshot_id, transaction_id, t) ==
    IF ~audit_success
    THEN Failure(500, "Audit logging failed", <<>>)
    ELSE [converted_amount |-> FloatOf(converted_amount),
          rate_snapshot_id |-> rate_snapshot_id,
          audit_log_transaction_id |-> transaction_id,
          from_currency |-> Upper(req.from),
          to_currency |-> Upper(req.to),
          original_amount |-> FloatOf([u |-> req.amount.u, m |-> req.amount.m]),
          conversion_timestamp |-> t,
          status_code |-> 200]

Calls == 1..NumCalls
Suffixes == 1..NumSuffixes

\* puts counts the put_item calls on the audit table; put is the result of
\* create_audit_log; storeErr records that a table operation of the call met a
\* store error; floor is lastSynced as the call started and cap the instant at
\* which the snapshot it read was captured.
IdleCall ==
    [pc |-> "idle", req |-> NoResponse, snap |-> NoSnapshot, floor |-> <<>>,
     cap |-> <<>>, scans |-> 0,
     puts |-> 0, put |-> FALSE, storeErr |-> FALSE, resp |-> NoResponse]

\* Lines 190-246: validation, the scan for the latest snapshot, the check of
\* the codes against it.
ConvertBegin(c, requests) ==
    /\ conv[c].pc = "idle"
    /\ \E req \in requests, storeOk \in BOOLEAN :
       \E page \in ScanPages(rateCache, ScanLimit) :
         LET bad == request_error(req)
             rate_snapshot == get_latest_rate_snapshot(rateCache, page, storeOk)
             unknown == currency_error(req.from, req.to, rate_snapshot.Rates)
             started == [conv EXCEPT ![c].req = req, ![c].floor = lastSynced,
                                     ![c].scans =
                                       IF bad # NoResponse THEN 0 ELSE 1]
         IN conv' =
              IF bad # NoResponse
              THEN [started EXCEPT ![c].pc = "done", ![c].resp = bad]
              ELSE IF rate_snapshot = NoSnapshot
              THEN [started EXCEPT ![c].pc = "done", ![c].storeErr = ~storeOk,
                      ![c].resp =
                        Failure(503, "No exchange rates available", <<>>)]
              ELSE IF unknown # NoResponse
              THEN [started EXCEPT ![c].pc = "done", ![c].resp = unknown,
                                   ![c].snap = rate_snapshot]
              ELSE [started EXCEPT ![c].pc = "audit",
                                   ![c].snap = rate_snapshot,
                                   ![c].cap =
                                     <<captured[rate_snapshot.RateSnapshotID]>>]
    /\ UNCHANGED <<now, rateCache, auditLog, sync, captured, lastSynced, calc>>

\* Lines 248-287: the transaction id, the arithmetic, the audit put, the result.
ConvertAudit(c) ==
    /\ conv[c].pc = "audit"
    /\ LET req == conv[c].req
           amount_decimal == [u |-> req.amount.u, m |-> req.amount.m]
           rates == conv[c].snap.Rates
           rate_snapshot_id == conv[c].snap.RateSnapshotID
       IN \E r \in {calculate_conversion(req.from, req.to, amount_decimal,
                                         rates)} :
          \E t \in Later(now), suffix \in Suffixes, storeOk \in BOOLEAN :
            LET transaction_id == generate_audit_transaction_id(t, suffix)
                record == audit_record(transaction_id, req.from, req.to,
                                       amount_decimal, r.amount,
                                       rate_snapshot_id, r.method, rates, t)
                audit == create_audit_log(auditLog, record, storeOk)
            IN /\ now' = t
               /\ IF r.raised
                  THEN /\ conv' = [conv EXCEPT
                            ![c].pc = "done",
                            ![c].resp = Failure(500, "Internal server error",
                                                <<"division by zero">>)]
                       /\ auditLog' = auditLog
                  ELSE /\ auditLog' = audit.table
                       /\ conv' = [conv EXCEPT
                            ![c].pc = "done",
                            ![c].puts = @ + 1,
                            ![c].put = audit.ok,
                            ![c].storeErr = ~storeOk,
                            ![c].resp = conversion_result(audit.ok, req,
                                          r.amount, rate_snapshot_id,
                                          transaction_id, t)]
    /\ UNCHANGED <<rateCache, sync, captured, lastSynced, calc>>

\* get_audit_record: the item under the id, or None.
get_audit_record(table, transaction_id, storeOk) ==
    IF storeOk /\ transaction_id \in DOMAIN table
    THEN table[transaction_id]
    ELSE NoResponse

(***************************************************************************)
(* calculate_conversion as a pure function: applied once, then applied to  *)
(* its own result in the opposite direction with the same rates.           *)
(***************************************************************************)
CalcApply ==
    /\ calc.stage = "in"
    /\ LET r == calculate_conversion(calc.from, calc.to, calc.amount, calc.rates)
       IN calc' = [calc EXCEPT !.stage = "out", !.out = r]
    /\ UNCHANGED <<now, rateCache, auditLog, sync, conv, captured, lastSynced>>

CalcBack ==
    /\ calc.stage = "out"
    /\ ~calc.out.raised
    /\ LET r == calculate_conversion(calc.to, calc.from, calc.out.amount,
                                     calc.rates)
       IN calc' = [calc EXCEPT !.stage = "back", !.back = r]
    /\ UNCHANGED <<now, rateCache, auditLog, sync, conv, captured, lastSynced>>

\* fetch_rates_from_frankfurter(max_retries) against a feed.
FetchApply ==
    /\ calc.stage = "feed"
    /\ calc' = [stage |-> "fetched", feed |-> calc.feed,
                max_retries |-> calc.max_retries,
                out |-> fetch_loop(calc.feed, 0, calc.max_retries, <<>>)]
    /\ UNCHANGED <<now, rateCache, auditLog, sync, conv, captured, lastSynced>>

\* trigger_sync, lines 340-344: the endpoint reads the clock for an id of its
\* own, then calls sync_rates (the sync invocation 1).
TriggerBegin ==
    /\ calc.stage = "off"
    /\ \E t \in Later(now) :
         /\ now' = t
         /\ calc' = [stage |-> "called", snapshot_id |-> generate_snapshot_id(t)]
    /\ UNCHANGED <<rateCache, auditLog, sync, conv, captured, lastSynced>>

\* Lines 346-369: the answer once sync_rates returned.
TriggerEnd ==
    /\ calc.stage = "called"
    /\ sync[1].pc = "done"
    /\ \E storeOk \in BOOLEAN :
         LET latest == get_latest_snapshot(rateCache, DOMAIN rateCache, storeOk)
             exact == /\ latest # NoSnapshot
                      /\ latest.RateSnapshotID = calc.snapshot_id
         IN calc' =
              IF sync[1].ret = "True"
              THEN [stage |-> "answered", status |-> "success",
                    snapshot_id |-> calc.snapshot_id,
                    currencies_updated |->
                        IF exact THEN Cardinality(DOMAIN latest.Rates) ELSE 0]
              ELSE [stage |-> "answered", status |-> "500",
                    snapshot_id |-> <<>>, currencies_updated |-> 0]
    /\ UNCHANGED <<now, rateCache, auditLog, sync, conv, captured, lastSynced>>

\* Lines 191-219 of perform_conversion on one request.
AmountApply ==
    /\ calc.stage = "request"
    /\ calc' = [stage |-> "checked", req |-> calc.req,
                out |-> request_error(calc.req)]
    /\ UNCHANGED <<now, rateCache, auditLog, sync, conv, captured, lastSynced>>

\* The /v1/audit/<transaction_id> endpoint, lines 360-387: the record under
\* the id, 404 when get_audit_record returns none, 400 for an empty id.
get_audit_record_endpoint ==
    /\ \E transaction_id \in DOMAIN auditLog \cup {<<>>, <<0, 0, 0>>} :
       \E storeOk \in BOOLEAN :
         LET record == get_audit_record(auditLog, transaction_id, storeOk)
         IN calc' =
              IF transaction_id = <<>>
              THEN [stage |-> "audit", status |-> 400,
                    error |-> "Transaction ID is required"]
              ELSE IF record = NoResponse
              THEN [stage |-> "audit", status |-> 404,
                    error |-> "Audit record not found"]
              ELSE [stage |-> "audit", status |-> 200, record |-> record]
    /\ UNCHANGED <<now, rateCache, auditLog, sync, conv, captured, lastSynced>>

\* get_current_rates that writes the instant of the read back into the
\* snapshot it returns.
get_current_rates_touching ==
    /\ \E storeOk \in BOOLEAN, page \in ScanPages(rateCache, ScanLimit) :
         LET snapshot == get_latest_rate_snapshot(rateCache, page, storeOk)
         IN IF snapshot = NoSnapshot
            THEN /\ calc' = [stage |-> "rates", status |-> 503,
                             error |-> "No rate snapshot available"]
                 /\ rateCache' = rateCache
            ELSE /\ calc' = [stage |-> "rates", status |-> 200,
                             rate_snapshot_id |-> snapshot.RateSnapshotID,
                             base_currency |-> snapshot.BaseCurrency,
                             rates_count |-> Cardinality(DOMAIN snapshot.Rates),
                             fetch_timestamp |-> snapshot.FetchTimestamp]
                 /\ rateCache' =
                      [rateCache EXCEPT
                         ![snapshot.RateSnapshotID].FetchTimestamp = now]
    /\ UNCHANGED <<now, auditLog, sync, conv, captured, lastSynced>>

\* The /v1/rates endpoint, lines 389-413: what the latest snapshot is, 503
\* when get_latest_rate_snapshot returns none.
get_current_rates ==
    /\ \E storeOk \in BOOLEAN, page \in ScanPages(rateCache, ScanLimit) :
         LET snapshot == get_latest_rate_snapshot(rateCache, page, storeOk)
         IN calc' =
              IF snapshot = NoSnapshot
              THEN [stage |-> "rates", status |-> 503,
                    error |-> "No rate snapshot available"]
              ELSE [stage |-> "rates", status |-> 200,
                    rate_snapshot_id |-> snapshot.RateSnapshotID,
                    base_currency |-> snapshot.BaseCurrency,
                    rates_count |-> Cardinality(DOMAIN snapshot.Rates),
                    fetch_timestamp |-> snapshot.FetchTimestamp]
    /\ UNCHANGED <<now, rateCache, auditLog, sync, conv, captured, lastSynced>>

\* Python truthiness of what a call of sync_rates hands back: True, False,
\* or, for a call that is not awaited, the coroutine object, which is truthy
\* as any object without __bool__ or __len__ is.
Coroutine == "coroutine"
TruthyResult(success) == success \in {"True", Coroutine}

\* lambda_handler of RateSync, lines 263-302.  It is a plain function and
\* sync_rates is declared async (line 208): line 275 calls it without await,
\* so success is the coroutine object and the body of sync_rates (the sync
\* invocation 2 of the model) is never started.  RateSyncService() may raise.
lambda_handler ==
    /\ calc.stage = "off"
    /\ \E built \in BOOLEAN :
         LET success == Coroutine
         IN calc' =
              IF ~built
              THEN [stage |-> "lambda", statusCode |-> 500, success |-> None,
                    message |-> "Lambda execution error"]
              ELSE IF TruthyResult(success)
              THEN [stage |-> "lambda", statusCode |-> 200, success |-> success,
                    message |-> "Rate synchronization completed successfully"]
              ELSE [stage |-> "lambda", statusCode |-> 500, success |-> success,
                    message |-> "Rate synchronization failed"]
    /\ UNCHANGED <<now, rateCache, auditLog, sync, conv, captured, lastSynced>>

(***************************************************************************)
(* periodic_sync, lines 380-396: the loop of the container mode.  calc is  *)
(* [stage, last, round]: asleep or inside its call of sync_rates (the sync  *)
(* invocation 1), how the last call ended, and the number of calls made.   *)
(* The loop is endless; the model follows it for MaxRounds calls.          *)
(***************************************************************************)
MaxRounds == 2

\* Line 385 returned: sync_rates is called, a new invocation.
PeriodicWake ==
    /\ calc.stage = "sleep"
    /\ calc.round < MaxRounds
    /\ calc' = [calc EXCEPT !.stage = "sync", !.round = @ + 1]
    /\ sync' = [sync EXCEPT ![1] = IdleSync]
    /\ UNCHANGED <<now, rateCache, auditLog, conv, captured, lastSynced>>

\* Lines 388-393: sync_rates returned; the result is logged and the loop is
\* back at its head.
PeriodicEnd ==
    /\ calc.stage = "sync"
    /\ sync[1].pc = "done"
    /\ calc' = [calc EXCEPT !.stage = "sleep", !.last = sync[1].ret]
    /\ UNCHANGED <<now, rateCache, auditLog, sync, conv, captured, lastSynced>>

\* periodic_sync with the try around the loop: an exception ends the task.
PeriodicRaiseEnding ==
    /\ calc.stage = "sync"
    /\ sync[1].pc \in {"fetch", "store"}
    /\ calc' = [calc EXCEPT !.stage = "ended", !.last = "raised"]
    /\ sync' = [sync EXCEPT ![1].pc = "done", ![1].data = NoData]
    /\ UNCHANGED <<now, rateCache, auditLog, conv, captured, lastSynced>>

\* Lines 395-396: an exception leaves the call of sync_rates where it was;
\* the handler inside the loop logs it and the loop is back at its head.
PeriodicRaise ==
    /\ calc.stage = "sync"
    /\ sync[1].pc \in {"fetch", "store"}
    /\ calc' = [calc EXCEPT !.stage = "sleep", !.last = "raised"]
    /\ sync' = [sync EXCEPT ![1].pc = "done", ![1].data = NoData]
    /\ UNCHANGED <<now, rateCache, auditLog, conv, captured, lastSynced>>

(***************************************************************************)
(* startup_event, lines 408-439: the initial sync and its retries.  calc   *)
(* is [stage, attempt, waits, last]: where the loop is, the attempt of     *)
(* range(1, max_retries + 1) it is in, the number of asyncio.sleep         *)
(* (retry_delay) made, and how the last call of sync_rates (the sync       *)
(* invocation 1) ended.                                                    *)
(***************************************************************************)
StartupRetries == 10

\* What follows an attempt that did not succeed, lines 422-429 and 434-439:
\* return after the last attempt, the delay otherwise.
AfterFailure(attempt) ==
    IF attempt = StartupRetries THEN "finished" ELSE "wait"

\* Line 417: sync_rates is called, a new invocation.
StartupCall ==
    /\ calc.stage = "attempt"
    /\ calc' = [calc EXCEPT !.stage = "sync"]
    /\ sync' = [sync EXCEPT ![1] = IdleSync]
    /\ UNCHANGED <<now, rateCache, auditLog, conv, captured, lastSynced>>

\* StartupEnd that takes the delay after the last attempt as well.
StartupEndDelaying ==
    /\ calc.stage = "sync"
    /\ sync[1].pc = "done"
    /\ calc' = [calc EXCEPT
                  !.last = sync[1].ret,
                  !.stage = IF sync[1].ret = "True" THEN "finished" ELSE "wait"]
    /\ UNCHANGED <<now, rateCache, auditLog, sync, conv, captured, lastSynced>>

\* Lines 419-429: sync_rates returned.
StartupEnd ==
    /\ calc.stage = "sync"
    /\ sync[1].pc = "done"
    /\ calc' = [calc EXCEPT
                  !.last = sync[1].ret,
                  !.stage = IF sync[1].ret = "True" THEN "finished"
                            ELSE AfterFailure(calc.attempt)]
    /\ UNCHANGED <<now, rateCache, auditLog, sync, conv, captured, lastSynced>>

\* Lines 431-439: an exception leaves the call of sync_rates where it was.
StartupRaise ==
    /\ calc.stage = "sync"
    /\ sync[1].pc \in {"fetch", "store"}
    /\ calc' = [calc EXCEPT !.last = "raised",
                            !.stage = AfterFailure(calc.attempt)]
    /\ sync' = [sync EXCEPT ![1].pc = "done", ![1].data = NoData]
    /\ UNCHANGED <<now, rateCache, auditLog, conv, captured, lastSynced>>

\* Lines 429 and 439: the delay is over and the for loop goes on.  An attempt
\* beyond the last ends the loop and the function.
StartupSleep ==
    /\ calc.stage = "wait"
    /\ calc' = [calc EXCEPT
                  !.waits = @ + 1,
                  !.attempt = IF @ < StartupRetries THEN @ + 1 ELSE @,
                  !.stage = IF calc.attempt < StartupRetries
                            THEN "attempt" ELSE "finished"]
    /\ UNCHANGED <<now, rateCache, auditLog, sync, conv, captured, lastSynced>>

\* Both lookups of the latest snapshot against the same store.
LatestApply ==
    /\ calc.stage = "store"
    /\ \E storeOk \in BOOLEAN, page \in ScanPages(rateCache, ScanLimit) :
         calc' = [stage |-> "latest", storeOk |-> storeOk,
                  engine |-> get_latest_rate_snapshot(rateCache, page, storeOk),
                  ratesync |-> get_latest_snapshot(rateCache, DOMAIN rateCache,
                                                   storeOk)]
    /\ UNCHANGED <<now, rateCache, auditLog, sync, conv, captured, lastSynced>>

(***************************************************************************)
(* Inputs.                                                                 *)
(***************************************************************************)
Request(from, to, units, mills) ==
    [from |-> from, to |-> to, amount |-> [ok |-> TRUE, u |-> units, m |-> mills]]

\* Spec: two sync invocations and two convert calls, interleaved.
Feeds == {<<Body(PayloadA), Timeout, Timeout>>,
          <<Timeout, Body(PayloadB), Timeout>>,
          <<Timeout, HttpError, Timeout>>}
Requests == {Request(USD, EUR, 100, 0)}

\* SpecSync: sync invocations alone, against a feed that may answer anything.
FeedsSync ==
    {<<Body(PayloadA), Timeout, Timeout>>,
     <<Timeout, Body(PayloadB), Timeout>>,
     <<Unexpected, HttpError, Body(PayloadUsd)>>,
     <<Timeout, HttpError, Timeout>>,
     <<JsonError, Body(PayloadA), Body(PayloadA)>>,
     <<Timeout, JsonError, Body(PayloadA)>>,
     <<HttpError, Timeout, JsonError>>,
     <<Body(PayloadNoRates), Body(PayloadA), Body(PayloadA)>>,
     <<Body(PayloadEmpty), Body(PayloadA), Body(PayloadA)>>,
     <<Timeout, Body(PayloadNaN), Body(PayloadA)>>,
     <<Body(PayloadInf), Body(PayloadA), Body(PayloadA)>>,
     <<Body(PayloadStr), Body(PayloadA), Body(PayloadA)>>,
     <<Body(PayloadBool), Body(PayloadA), Body(PayloadA)>>,
     <<Body(PayloadZero), Timeout, Timeout>>,
     <<Body(PayloadNeg), Timeout, Timeout>>}

\* SpecValidate: one sync invocation and one convert call whose amount or codes
\* may be malformed.  An amount text that Decimal() refuses has ok = FALSE.
Unparsed == [ok |-> FALSE, u |-> 0, m |-> 0]
Parsed(units, mills) == [ok |-> TRUE, u |-> units, m |-> mills]
FeedsValidate == {<<Body(PayloadA), Timeout, Timeout>>,
                  <<Timeout, HttpError, Timeout>>}
CodesValidate ==
    {<<>>, <<"U", "S">>, <<"E", "U", "R", "O">>, <<" ", " ", " ">>, USD, GBP}
AmountsValidate == {Unparsed, Parsed(0, 0), Parsed(-1, 0), Parsed(100, 0)}
RequestsValidate ==
    {[from |-> f, to |-> t, amount |-> a] :
        f \in CodesValidate, t \in CodesValidate, a \in AmountsValidate}

\* SpecCall: the requests of one call.
CodesCall == {USD, GBP, XXX, <<"U", "S">>}
RequestsCall ==
    {[from |-> f, to |-> t, amount |-> a] :
        f \in CodesCall, t \in CodesCall, a \in {Unparsed, Parsed(100, 0)}}

\* SpecAmount: amounts around zero and around the ceiling of line 196.
AmountsEdge ==
    {Unparsed, Parsed(-1, 0), Parsed(0, -1), Parsed(0, 0), Parsed(0, 1),
     Parsed(1, 0), Parsed(MaxAmountUnits - 1, 999), Parsed(MaxAmountUnits, 0),
     Parsed(MaxAmountUnits, 1), Parsed(MaxAmountUnits + 1, 0),
     Parsed(2 * MaxAmountUnits, 0)}
RequestsAmount ==
    {[from |-> f, to |-> t, amount |-> a] :
        f \in CodesCall, t \in CodesCall, a \in AmountsEdge}

\* SpecConv: one sync invocation, then one convert call.
FeedsConv == {<<Body(PayloadA), Timeout, Timeout>>,
              <<HttpError, Body(PayloadUsd), Timeout>>,
              <<Timeout, HttpError, Body(PayloadC)>>}
CodesConv == {USD, EUR, GBP, XXX, <<"u", "s", "d">>, <<" ", "u", "s", "d">>}
AmountsConv == {<<100, 0>>, <<50, 0>>, <<100, 125>>, <<0, 5>>, <<1, 300>>}
RequestsConv ==
    {Request(f, t, a[1], a[2]) : f \in CodesConv, t \in CodesConv,
                                 a \in AmountsConv}

\* SpecCalc: the arguments of calculate_conversion, the rates being those of a
\* snapshot as store_rates_in_cache builds it.
RateValues == {85, 90, 110, 120, 250}
PayloadsCalc ==
    {[base |-> EUR, rates |-> Dict(USD :> Num(x) @@ GBP :> Num(y))] :
        x \in RateValues, y \in RateValues}
    \cup {[base |-> USD, rates |-> Dict(EUR :> Num(x) @@ GBP :> Num(y))] :
        x \in RateValues, y \in RateValues}
CodesCalc == {USD, EUR, GBP}
AmountsCalc ==
    {Dec(100, 0), Dec(50, 0), Dec(100, 125), Dec(0, 5), Dec(1, 0), Dec(1, 300)}

NoCalc == [stage |-> "off"]

\* SpecFetch: a feed of MaxAttempts outcomes and a retry budget within it.
MaxAttempts == 4
PayloadNoLen == [base |-> EUR, rates |-> Num(5)]
Outcomes ==
    {Timeout, HttpError, JsonError, Unexpected, Body(PayloadA),
     Body(PayloadNoLen)}
FeedsFetch == [1..MaxAttempts -> Outcomes]

\* SpecLatest: a store of up to MaxStored snapshots, one more than a page.
MaxStored == 51
StoredIds(n) == {<<0, k>> : k \in 1..n}
StoreOf(ids) == [id \in ids |-> cache_item(id, PayloadA, <<0, 0, id[2]>>)]

InitSystem ==
    /\ now = <<0, 0, 0>>
    /\ rateCache = <<>>
    /\ auditLog = <<>>
    /\ sync = [p \in Syncers |-> IdleSync]
    /\ conv = [c \in Calls |-> IdleCall]
    /\ captured = <<>>
    /\ lastSynced = <<>>

Init == InitSystem /\ calc = NoCalc

Next ==
    \/ \E p \in Syncers : SyncBegin(p)
    \/ \E p \in Syncers : SyncFetch(p, Feeds)
    \/ \E p \in Syncers : SyncStore(p)
    \/ \E c \in Calls : ConvertBegin(c, Requests)
    \/ \E c \in Calls : ConvertAudit(c)

Spec == Init /\ [][Next]_vars

NextConv ==
    \/ SyncBegin(1)
    \/ SyncFetch(1, FeedsConv)
    \/ SyncStore(1)
    \/ ConvertBegin(1, RequestsConv)
    \/ ConvertAudit(1)

SpecConv == Init /\ [][NextConv]_vars

NextValidate ==
    \/ SyncBegin(1)
    \/ SyncFetch(1, FeedsValidate)
    \/ SyncStore(1)
    \/ ConvertBegin(1, RequestsValidate)
    \/ ConvertAudit(1)

SpecValidate == Init /\ [][NextValidate]_vars

NextSync ==
    \/ \E p \in Syncers : SyncBegin(p)
    \/ \E p \in Syncers : SyncFetch(p, FeedsSync)
    \/ \E p \in Syncers : SyncStore(p)

SpecSync == Init /\ [][NextSync]_vars

\* SpecResync: one sync invocation against a store that is empty or holds the
\* snapshot an earlier invocation stored at the first instant.
InitResync ==
    /\ now = <<0, 0, 0>>
    /\ auditLog = <<>>
    /\ sync = [p \in Syncers |-> IdleSync]
    /\ conv = [c \in Calls |-> IdleCall]
    /\ calc = NoCalc
    /\ \/ rateCache = <<>> /\ captured = <<>> /\ lastSynced = <<>>
       \/ /\ rateCache = StoreOf({generate_snapshot_id(<<0, 0, 0>>)})
          /\ captured = [id \in {generate_snapshot_id(<<0, 0, 0>>)} |-> <<0, 0, 0>>]
          /\ lastSynced = <<<<0, 0, 0>>>>

NextResync ==
    \/ SyncBegin(1)
    \/ SyncFetch(1, FeedsSync)
    \/ SyncStore(1)

SpecResync == InitResync /\ [][NextResync]_vars

\* SpecTrigger: one call of the /sync endpoint.
NextTrigger ==
    \/ TriggerBegin
    \/ calc.stage = "called" /\ SyncBegin(1)
    \/ SyncFetch(1, FeedsSync)
    \/ SyncStore(1)
    \/ TriggerEnd

SpecTrigger == Init /\ [][NextTrigger]_vars

\* SpecCall: one convert call against a store that is empty or holds one
\* snapshot.  perform_conversion is straight-line code: a call that has its
\* snapshot goes on to the audit write and returns, hence the fairness.
NextCall ==
    \/ ConvertBegin(1, RequestsCall)
    \/ ConvertAudit(1)

SpecCall == InitResync /\ [][NextCall]_vars /\ WF_vars(ConvertAudit(1))

\* SpecEngine: the three operations of ConversionEngine, any number of times
\* and in any order, beside one sync invocation.
RequestsEngine ==
    {Request(USD, GBP, 100, 0), Request(USD, XXX, 100, 0),
     [from |-> GBP, to |-> USD, amount |-> Unparsed]}

NextEngine ==
    \/ SyncBegin(1)
    \/ SyncFetch(1, FeedsValidate)
    \/ SyncStore(1)
    \/ ConvertBegin(1, RequestsEngine)
    \/ ConvertAudit(1)
    \/ get_audit_record_endpoint
    \/ get_current_rates

SpecEngine == InitResync /\ [][NextEngine]_vars

\* SpecFail: convert calls against a store that a sync invocation may have
\* filled with a zero rate, which validate_rates_data lets through.
FeedsFail == {<<Body(PayloadZero), Timeout, Timeout>>,
              <<Timeout, Body(PayloadA), Timeout>>}
RequestsFail == {Request(GBP, USD, 100, 0), Request(USD, GBP, 100, 0)}

NextFail ==
    \/ SyncBegin(1)
    \/ SyncFetch(1, FeedsFail)
    \/ SyncStore(1)
    \/ \E c \in Calls : ConvertBegin(c, RequestsFail)
    \/ \E c \in Calls : ConvertAudit(c)

SpecFail == Init /\ [][NextFail]_vars

\* SpecLambda: one scheduled execution of lambda_handler, beside a sync
\* invocation of the container (invocation 1).
NextLambda ==
    \/ lambda_handler
    \/ SyncBegin(1)
    \/ SyncFetch(1, FeedsSync)
    \/ SyncStore(1)

SpecLambda == Init /\ [][NextLambda]_vars

\* SpecPeriodic: the task startup_event creates in container mode (line 406),
\* from its first sleep on.  The event loop resumes the task when its sleep
\* or its awaited call is over, and every step of sync_rates ends (the GET has
\* a timeout, the retries are bounded): hence the weak fairness of each step.
InitPeriodic ==
    InitSystem /\ calc = [stage |-> "sleep", last |-> None, round |-> 0]

NextPeriodic ==
    \/ PeriodicWake
    \/ calc.stage = "sync" /\ SyncBegin(1)
    \/ SyncFetch(1, FeedsValidate)
    \/ SyncStore(1)
    \/ PeriodicEnd
    \/ PeriodicRaise

SpecPeriodic ==
    /\ InitPeriodic /\ [][NextPeriodic]_vars
    /\ WF_vars(PeriodicWake)
    /\ WF_vars(calc.stage = "sync" /\ SyncBegin(1))
    /\ WF_vars(SyncFetch(1, FeedsValidate))
    /\ WF_vars(SyncStore(1))
    /\ WF_vars(PeriodicEnd)

\* SpecStartup: startup_event from its first attempt on.  The event loop
\* resumes the function when a delay or an awaited call is over, and every
\* step of sync_rates ends: hence the weak fairness of each step.
InitStartup ==
    /\ InitSystem
    /\ calc = [stage |-> "attempt", attempt |-> 1, waits |-> 0, last |-> None]

NextStartup ==
    \/ StartupCall
    \/ calc.stage = "sync" /\ SyncBegin(1)
    \/ SyncFetch(1, FeedsValidate)
    \/ SyncStore(1)
    \/ StartupEnd
    \/ StartupRaise
    \/ StartupSleep

SpecStartup ==
    /\ InitStartup /\ [][NextStartup]_vars
    /\ WF_vars(StartupCall)
    /\ WF_vars(calc.stage = "sync" /\ SyncBegin(1))
    /\ WF_vars(SyncFetch(1, FeedsValidate))
    /\ WF_vars(SyncStore(1))
    /\ WF_vars(StartupEnd)
    /\ WF_vars(StartupSleep)

InitAmount ==
    /\ InitSystem
    /\ \E req \in RequestsAmount : calc = [stage |-> "request", req |-> req]

NextAmount == AmountApply

SpecAmount == InitAmount /\ [][NextAmount]_vars

InitCalc ==
    /\ InitSystem
    /\ \E f \in CodesCalc, t \in CodesCalc, a \in AmountsCalc,
          data \in PayloadsCalc :
         calc = [stage |-> "in", from |-> f, to |-> t, amount |-> a,
                 base |-> cache_item(<<0, 0>>, data, <<0, 0, 0>>).BaseCurrency,
                 rates |-> cache_item(<<0, 0>>, data, <<0, 0, 0>>).Rates,
                 out |-> [raised |-> TRUE], back |-> [raised |-> TRUE]]

NextCalc == CalcApply \/ CalcBack

SpecCalc == InitCalc /\ [][NextCalc]_vars

InitFetch ==
    /\ InitSystem
    /\ \E feed \in FeedsFetch, n \in 0..MaxAttempts :
         calc = [stage |-> "feed", feed |-> feed, max_retries |-> n]

NextFetch == FetchApply

SpecFetch == InitFetch /\ [][NextFetch]_vars

InitLatest ==
    /\ now = <<0, 0, 0>>
    /\ auditLog = <<>>
    /\ sync = [p \in Syncers |-> IdleSync]
    /\ conv = [c \in Calls |-> IdleCall]
    /\ lastSynced = <<>>
    /\ \E n \in 0..MaxStored :
         /\ rateCache = StoreOf(StoredIds(n))
         /\ captured = [id \in StoredIds(n) |-> <<0, 0, id[2]>>]
    /\ calc = [stage |-> "store"]

NextLatest == LatestApply

SpecLatest == InitLatest /\ [][NextLatest]_vars

(***************************************************************************)
(* The claims.                                                             *)
(***************************************************************************)
Finished(c) == conv[c].pc = "done"
Succeeded(c) == Finished(c) /\ conv[c].resp.status_code = 200

\* C1: fail-closed audit gate.  A convert call that passed validation, found a
\* snapshot and whose audit put failed returns status 500 with an 'error'
\* member and without converted_amount, rate_snapshot_id or
\* audit_log_transaction_id.
C1_FailClosedGate ==
    \A c \in Calls :
        (Finished(c) /\ conv[c].puts = 1 /\ ~conv[c].put) =>
            /\ conv[c].resp.status_code = 500
            /\ "error" \in DOMAIN conv[c].resp
            /\ DOMAIN conv[c].resp \cap
                 {"converted_amount", "rate_snapshot_id",
                  "audit_log_transaction_id"} = {}

\* A triangulated conversion whose audit put met a store error.
C1_Witness ==
    \E c \in Calls :
        /\ Finished(c) /\ conv[c].puts = 1 /\ ~conv[c].put
        /\ conv[c].storeErr /\ conv[c].resp.status_code = 500
        /\ Upper(conv[c].req.from) = USD /\ Upper(conv[c].req.to) = GBP

\* C2: every convert response with status 200 carries an
\* audit_log_transaction_id under which get_audit_record returns a record whose
\* original amount, converted amount, currencies and snapshot id are those of
\* the response.
C2_ResponseResolves ==
    \A c \in Calls :
        Succeeded(c) =>
            LET resp == conv[c].resp
                rec == get_audit_record(auditLog, resp.audit_log_transaction_id,
                                        TRUE)
            IN /\ rec # NoResponse
               /\ rec.OriginalAmount = resp.original_amount
               /\ rec.ConvertedAmount = resp.converted_amount
               /\ rec.FromCurrency = resp.from_currency
               /\ rec.ToCurrency = resp.to_currency
               /\ rec.RateSnapshotID = resp.rate_snapshot_id

\* C3: one audit entry per successful conversion.  A call issues at most one
\* audit put, a successful call exactly one, a call that failed before the
\* audit write none, and the number of audit records is the number of calls
\* whose put succeeded.
C3_OneRecordPerSuccess ==
    /\ \A c \in Calls :
         /\ conv[c].puts <= 1
         /\ Succeeded(c) => conv[c].puts = 1 /\ conv[c].put
         /\ (Finished(c) /\ conv[c].resp.status_code \in {400, 503}) =>
                conv[c].puts = 0
    /\ Cardinality(DOMAIN auditLog) = Cardinality({c \in Calls : conv[c].put})

\* C4: a convert call that started after a sync completed successfully uses,
\* and records in its audit record, a snapshot captured no earlier than that
\* sync took its candidate id.
C4_Freshness ==
    \A c \in Calls :
        (Succeeded(c) /\ conv[c].floor # <<>>) =>
            /\ TimeLeq(conv[c].floor[1], conv[c].cap[1])
            /\ conv[c].resp.rate_snapshot_id = conv[c].snap.RateSnapshotID

\* c hundredths is the fraction n/d, n >= 0 and d > 0, rounded half-up.
HalfUpOf(c, n, d) == (2 * c - 1) * d <= 2 * n /\ 2 * n < (2 * c + 1) * d

Applied == calc.stage \in {"out", "back"}

\* C5: for a snapshot with pivot P and positive rates and from # to,
\* calculate_conversion returns amount x rate(to) when from = P, amount /
\* rate(from) when to = P and (amount / rate(from)) x rate(to) otherwise,
\* rounded once to 2 decimals half-up; with pivot EUR, USD 1.1 and GBP 0.85,
\* 100 USD->EUR is 90.91, 100 EUR->GBP is 85.00 and 50 USD->GBP is 38.64.
C5_TriangulationArithmetic ==
    (Applied /\ calc.from # calc.to) =>
        LET a == Mills(calc.amount)
            c == Mills(calc.out.amount) \div 10
        IN /\ ~calc.out.raised
           /\ calc.out.amount.m % 10 = 0
           /\ IF calc.from = calc.base
              THEN HalfUpOf(c, a * calc.rates[calc.to], 1000)
              ELSE IF calc.to = calc.base
              THEN HalfUpOf(c, a * 10, calc.rates[calc.from])
              ELSE HalfUpOf(c, a * calc.rates[calc.to],
                            10 * calc.rates[calc.from])
           /\ (/\ calc.base = EUR
               /\ calc.rates[USD] = 110 /\ calc.rates[GBP] = 85) =>
                  /\ (calc.from = USD /\ calc.to = EUR
                        /\ calc.amount = Dec(100, 0)) =>
                            calc.out.amount = Dec(90, 910)
                  /\ (calc.from = EUR /\ calc.to = GBP
                        /\ calc.amount = Dec(100, 0)) =>
                            calc.out.amount = Dec(85, 0)
                  /\ (calc.from = USD /\ calc.to = GBP
                        /\ calc.amount = Dec(50, 0)) =>
                            calc.out.amount = Dec(38, 640)

Norm(code) == Strip(Upper(code))

\* The call ran against a snapshot with no store error on its way.
Served(c) ==
    /\ Finished(c)
    /\ request_error(conv[c].req) = NoResponse
    /\ conv[c].snap # NoSnapshot
    /\ ~conv[c].storeErr

\* C6: a valid request whose codes are the same after normalization, the code
\* being the pivot of the snapshot or a key of its rates, succeeds with
\* converted_amount equal to the amount and calculation_method same_currency.
C6_SameCurrency ==
    \A c \in Calls :
        (/\ Served(c)
         /\ Norm(conv[c].req.from) = Norm(conv[c].req.to)
         /\ \/ Norm(conv[c].req.from) = conv[c].snap.BaseCurrency
            \/ Norm(conv[c].req.from) \in DOMAIN conv[c].snap.Rates) =>
            /\ Succeeded(c)
            /\ Mills(conv[c].resp.converted_amount) = Mills(conv[c].req.amount)
            /\ auditLog[conv[c].resp.audit_log_transaction_id].CalculationMethod
                   = "same_currency"

\* C7: the converted_amount of a successful conversion, as returned and as
\* stored, has at most 2 decimals and is the half-up rounding of the exact
\* result of the branch that computed it, the branch from = to included.
C7_RoundedHalfUp ==
    \A c \in Calls :
        Succeeded(c) =>
            LET rec == auditLog[conv[c].resp.audit_log_transaction_id]
                a == Mills(rec.OriginalAmount)
                r == Mills(conv[c].resp.converted_amount) \div 10
                F == rec.RatesUsed[rec.FromCurrency].decimal
                T == rec.RatesUsed[rec.ToCurrency].decimal
                m == rec.CalculationMethod
            IN /\ rec.ConvertedAmount = conv[c].resp.converted_amount
               /\ conv[c].resp.converted_amount.m % 10 = 0
               /\ CASE m = "same_currency" -> HalfUpOf(r, a, 10)
                    [] m = "eur_to_target" -> HalfUpOf(r, a * T, 1000)
                    [] m = "source_to_eur" -> HalfUpOf(r, a * 10, F)
                    [] OTHER -> HalfUpOf(r, a * T, 10 * F)

RoundTripped == calc.stage = "back" /\ calc.from # calc.to /\ ~calc.back.raised

Drift == Abs(Mills(calc.back.amount) - Mills(calc.amount))

\* C8: converting a from A to B and the result back to A with the same
\* snapshot, A # B, gives a value within 0.005 x (1 + rate(A) / rate(B)) of a,
\* the rate of a code being the one calculate_conversion uses: within 0.01
\* when rate(A) <= rate(B).
C8_RoundTrip ==
    RoundTripped =>
        LET rA == Get(calc.rates, calc.from, 100)
            rB == Get(calc.rates, calc.to, 100)
        IN /\ Drift * rB <= 5 * (rA + rB)
           /\ rA <= rB => Drift <= 10

\* A round trip through the pivot, from the dearer to the cheaper currency and
\* back, that does not return to the amount it started from.
C8_Witness ==
    /\ RoundTripped
    /\ calc.out.method = "triangulation"
    /\ Get(calc.rates, calc.from, 100) > Get(calc.rates, calc.to, 100)
    /\ Drift > 0

\* C8 as first stated: the round trip returns to within 0.01 of a.
C8_WithinOneCent == RoundTripped => Drift <= 10

\* C9: a sync whose candidate id was already stored as it started reports
\* success without calling the feed and without writing.
C9_SyncIdempotent ==
    \A p \in Syncers :
        (sync[p].pc = "done" /\ sync[p].existed) =>
            /\ sync[p].ret = "True"
            /\ ~sync[p].fetched
            /\ ~sync[p].wrote
            /\ sync[p].id \in DOMAIN rateCache

\* C10: a stored snapshot never changes and is never deleted, in any
\* interleaving of sync invocations and convert calls.
C10_SnapshotImmutable ==
    [][\A id \in DOMAIN rateCache :
          id \in DOMAIN rateCache' /\ rateCache'[id] = rateCache[id]]_vars

\* C11: audit records are write-once.  No step of any convert call changes or
\* replaces a stored audit record, and two calls whose audit put succeeded
\* hold distinct transaction ids.
C11_AuditWriteOnce ==
    [][/\ \A id \in DOMAIN auditLog :
             id \in DOMAIN auditLog' /\ auditLog'[id] = auditLog[id]
       /\ \A c, d \in Calls :
             (c # d /\ Succeeded(c)' /\ Succeeded(d)') =>
                 conv'[c].resp.audit_log_transaction_id
                     # conv'[d].resp.audit_log_transaction_id]_vars

Fetched == calc.stage = "fetched"

\* The first n attempts of the feed all end in the outcome o.
AllAttempts(n, o) == \A i \in 1..n : calc.feed[i] = o

\* C12: against a feed on which every attempt times out,
\* fetch_rates_from_frankfurter(max_retries = N) makes exactly N attempts,
\* sleeps 2^k after the k-th failed attempt for k = 0..N-2 and not after the
\* last one, and returns no data.
C12_RetryBound ==
    (Fetched /\ AllAttempts(calc.max_retries, Timeout)) =>
        /\ calc.out.attempts = calc.max_retries
        /\ calc.out.waits = [k \in 1..(calc.max_retries - 1) |-> 2 ^ (k - 1)]
        /\ calc.out.data = NoData

\* The default budget of 3 attempts spent on timeouts, with waits 1 and 2.
C12_Witness ==
    /\ Fetched /\ calc.max_retries = MaxRetries
    /\ AllAttempts(MaxRetries, Timeout)
    /\ calc.out.waits = <<1, 2>>

\* The k-th GET of the feed is the first to end otherwise than in a timeout or
\* an HTTP error, and its body does not parse.
JsonAt(feed, k) ==
    /\ feed[k] = JsonError
    /\ \A i \in 1..(k - 1) : feed[i] \in {Timeout, HttpError}

\* C13: a fetch attempt whose body is unparseable JSON ends the fetch there,
\* whatever its index: no later attempt, no wait after it, no data; and the
\* sync that made it returns False without writing to the table.
C13_JsonAborts ==
    \A p \in Syncers : \A k \in 1..MaxRetries :
        (sync[p].fetched /\ JsonAt(sync[p].feed, k)) =>
            LET r == fetch_rates_from_frankfurter(sync[p].feed)
            IN /\ r.attempts = k
               /\ r.waits = [i \in 1..(k - 1) |-> 2 ^ (i - 1)]
               /\ r.data = NoData
               /\ sync[p].pc = "done"
               /\ sync[p].ret = "False"
               /\ ~sync[p].wrote

\* A sync ended by an unparseable body at its second attempt, the third
\* attempt of the feed holding a good payload.
C13_Witness ==
    \E p \in Syncers :
        /\ sync[p].pc = "done" /\ sync[p].ret = "False"
        /\ JsonAt(sync[p].feed, 2)
        /\ sync[p].feed[3] = Body(PayloadA)

\* The sync invocation p returns False in this step.
Fails(p) == sync[p].ret # "False" /\ sync'[p].ret = "False"

\* C14: a sync that fails, at the fetch, the validation or the storage stage,
\* leaves the stored snapshots as they were: the step in which it returns
\* False changes nothing in the table, it has made no put before, and the
\* latest snapshot is the one it was.
C14_FailedSyncKeepsStore ==
    [][\A p \in Syncers :
          Fails(p) =>
              /\ rateCache' = rateCache
              /\ ~sync'[p].wrote
              /\ get_latest_rate_snapshot(rateCache', DOMAIN rateCache', TRUE)
                   = get_latest_rate_snapshot(rateCache, DOMAIN rateCache, TRUE)]_vars

\* Against a store that holds a snapshot, a sync with a valid payload in hand
\* has failed at the storage stage, and that snapshot is still the latest.
C14_Witness ==
    \E p \in Syncers :
        /\ sync[p].ret = "False" /\ sync[p].fetched
        /\ validate_rates_data(fetch_rates_from_frankfurter(sync[p].feed).data)
        /\ sync[p].id # generate_snapshot_id(<<0, 0, 0>>)
        /\ rateCache = StoreOf({generate_snapshot_id(<<0, 0, 0>>)})
        /\ get_latest_rate_snapshot(rateCache, DOMAIN rateCache, TRUE).RateSnapshotID
               = generate_snapshot_id(<<0, 0, 0>>)

\* C15: every stored snapshot has a non-empty rates mapping whose values are
\* all finite numbers greater than 0.
C15_StoredRatesPositive ==
    \A id \in DOMAIN rateCache :
        /\ DOMAIN rateCache[id].Rates # {}
        /\ \A c \in DOMAIN rateCache[id].Rates : rateCache[id].Rates[c] > 0

\* C16: every stored snapshot holds its own base currency with rate 1.
C16_PivotPresent ==
    \A id \in DOMAIN rateCache :
        /\ rateCache[id].BaseCurrency \in DOMAIN rateCache[id].Rates
        /\ rateCache[id].Rates[rateCache[id].BaseCurrency] = 100

TimeLess(a, b) == TimeLeq(a, b) /\ a # b

\* C17: snapshot ids preserve the order of capture: of two sync invocations,
\* the one that read the clock strictly earlier has the strictly smaller id,
\* so distinct instants give distinct ids.
C17_IdsOrdered ==
    \A p, q \in Syncers :
        (sync[p].at # <<>> /\ sync[q].at # <<>>
            /\ TimeLess(sync[p].at, sync[q].at)) =>
                IdLess(sync[p].id, sync[q].id)


Greatest(table) == table[MaxId(DOMAIN table)]

\* C18: when the store answers, both lookups of the latest snapshot return the
\* stored snapshot with the greatest id of all stored snapshots, and return
\* none exactly when the store is empty.
C18_LatestIsGreatest ==
    (calc.stage = "latest" /\ calc.storeOk) =>
        IF rateCache = <<>>
        THEN calc.engine = NoSnapshot /\ calc.ratesync = NoSnapshot
        ELSE /\ calc.engine = Greatest(rateCache)
             /\ calc.ratesync = Greatest(rateCache)


\* The payload a sync invocation got from the feed, and whether it has no
\* 'rates' mapping, an empty one, or a rate that is not a finite number.
Got(p) == fetch_rates_from_frankfurter(sync[p].feed).data
BadPayload(data) ==
    \/ "rates" \notin DOMAIN data
    \/ data.rates.j # "dict"
    \/ DOMAIN RatesOf(data) = {}
    \/ \E c \in DOMAIN RatesOf(data) : RatesOf(data)[c].j # "num"

\* C19: a sync invocation that fetched a payload with no 'rates' mapping, an
\* empty one or a rate that is not a finite number ends at the validation: it
\* has returned failure, it never reaches the store, and it has written
\* nothing.
C19_BadPayloadRejected ==
    \A p \in Syncers :
        (sync[p].feed # <<>> /\ Got(p) # NoData /\ BadPayload(Got(p))) =>
            /\ sync[p].pc = "done"
            /\ sync[p].ret = "False"
            /\ ~sync[p].wrote


WellFormed(req) == request_error(req) = NoResponse

\* C20: a convert call with a well-formed amount and well-formed codes that
\* scans an empty RateSnapshotStore ends there with status 503, without a
\* converted amount, without a put to the audit table and with the audit
\* table as it was.
C20_EmptyStoreUnavailable ==
    [][\A c \in Calls :
         (conv[c].pc = "idle" /\ conv'[c].pc # "idle"
             /\ rateCache = <<>> /\ WellFormed(conv'[c].req)) =>
                /\ conv'[c].pc = "done"
                /\ conv'[c].resp.status_code = 503
                /\ "converted_amount" \notin DOMAIN conv'[c].resp
                /\ conv'[c].puts = 0
                /\ auditLog' = auditLog]_vars

\* A USD to GBP call of 100.00 answered 503 by a store that responded and
\* holds nothing.
C20_Witness ==
    \E c \in Calls :
        /\ Finished(c) /\ WellFormed(conv[c].req) /\ ~conv[c].storeErr
        /\ rateCache = <<>> /\ auditLog = <<>>
        /\ conv[c].req.from = USD /\ conv[c].req.to = GBP
        /\ conv[c].resp.status_code = 503


AmountBad(req) == ~req.amount.ok \/ DecLeq(req.amount, Dec(0, 0))
CodesBad(req) ==
    \/ req.from = <<>> \/ req.to = <<>>
    \/ Len(Strip(Upper(req.from))) # 3 \/ Len(Strip(Upper(req.to))) # 3

\* C21: a convert call whose amount is unparseable or non-positive, or one of
\* whose codes is missing or not 3 characters long, returns status 400 with
\* no scan of the snapshot table and no put to the audit table; a bad amount
\* is reported even when a code is bad too; the response is the same with and
\* without a stored snapshot.
C21_ValidationFirst ==
    \A c \in Calls :
        (conv[c].pc # "idle" /\ (AmountBad(conv[c].req) \/ CodesBad(conv[c].req))) =>
            /\ Finished(c)
            /\ conv[c].resp.status_code = 400
            /\ conv[c].scans = 0 /\ conv[c].puts = 0 /\ auditLog = <<>>
            /\ conv[c].snap = NoSnapshot
            /\ conv[c].resp.error.msg =
                 IF AmountBad(conv[c].req)
                 THEN "Invalid amount. Must be a positive number."
                 ELSE IF conv[c].req.from = <<>> \/ conv[c].req.to = <<>>
                 THEN "Missing currency codes"
                 ELSE "Currency codes must be 3 characters"

\* An unparseable amount together with a two-letter code, refused for the
\* amount while a snapshot is in the store.
C21_Witness ==
    \E c \in Calls :
        /\ Finished(c) /\ ~conv[c].req.amount.ok
        /\ conv[c].req.from = <<"U", "S">> /\ conv[c].req.to = GBP
        /\ conv[c].resp.status_code = 400
        /\ rateCache # <<>>


\* The code is neither the pivot of the snapshot nor a key of its rates.
Unknown(code, snap) ==
    Norm(code) # snap.BaseCurrency /\ Norm(code) \notin DOMAIN snap.Rates

\* C22: a well-formed call that found a snapshot to which from or to is
\* unknown returns status 400 with a message naming the unknown code, from
\* before to, also when from = to, and makes no put to the audit table.
C22_UnknownCodeNamed ==
    \A c \in Calls :
        (/\ conv[c].pc # "idle" /\ WellFormed(conv[c].req)
         /\ conv[c].snap # NoSnapshot
         /\ \/ Unknown(conv[c].req.from, conv[c].snap)
            \/ Unknown(conv[c].req.to, conv[c].snap)) =>
            /\ Finished(c)
            /\ conv[c].resp.status_code = 400
            /\ conv[c].resp.error.msg = "Currency not supported"
            /\ Strip(conv[c].resp.error.arg) =
                 IF Unknown(conv[c].req.from, conv[c].snap)
                 THEN Norm(conv[c].req.from) ELSE Norm(conv[c].req.to)
            /\ conv[c].puts = 0 /\ auditLog = <<>>


\* The method the specification names for a conversion against pivot P.
MethodOf(from, to, P) ==
    IF from = to THEN "same_currency"
    ELSE IF from = P THEN "pivot_to_target"
    ELSE IF to = P THEN "source_to_pivot"
    ELSE "triangulation"

\* C23: the CalculationMethod of every stored audit record is same_currency
\* when its currencies are equal, pivot_to_target when the source is the
\* pivot of the snapshot it names, source_to_pivot when the target is, and
\* triangulation otherwise.
C23_MethodNames ==
    \A id \in DOMAIN auditLog :
        LET rec == auditLog[id]
        IN rec.RateSnapshotID \in DOMAIN rateCache =>
              rec.CalculationMethod =
                  MethodOf(rec.FromCurrency, rec.ToCurrency,
                           rateCache[rec.RateSnapshotID].BaseCurrency)


\* C24: when the /sync endpoint answers success for a sync that stored a
\* snapshot, the snapshot_id of the answer is the id under which the snapshot
\* was stored, and the table holds that snapshot under it.
C24_ReportedIdIsStored ==
    (calc.stage = "answered" /\ calc.status = "success" /\ sync[1].wrote) =>
        /\ calc.snapshot_id = sync[1].id
        /\ calc.snapshot_id \in DOMAIN rateCache


\* C25: an attempt that was made and failed otherwise than by a timeout, a
\* transport error or a non-2xx status is the last one of the fetch: no
\* attempt and no backoff wait follows it, and the fetch returns nothing.
C25_OnlyTransientRetried ==
    Fetched =>
        \A k \in 1..MaxAttempts :
            (k <= calc.out.attempts /\ calc.feed[k] \in {JsonError, Unexpected}) =>
                /\ calc.out.attempts = k
                /\ Len(calc.out.waits) = k - 1
                /\ calc.out.data = NoData


\* The k-th GET of the feed is the first to end otherwise than in a timeout or
\* an HTTP error, and it is answered 2xx with a body that parses.
SuccessAt(feed, k) ==
    /\ feed[k].k = "ok"
    /\ \A i \in 1..(k - 1) : feed[i] \in {Timeout, HttpError}

\* C26: the fetch makes at most max_retries attempts, and when the first
\* success of the feed is at attempt k <= max_retries it makes exactly k
\* attempts and k - 1 waits and returns the payload of attempt k.
C26_StopsAtFirstSuccess ==
    Fetched =>
        /\ calc.out.attempts <= calc.max_retries
        /\ \A k \in 1..calc.max_retries :
              SuccessAt(calc.feed, k) =>
                  /\ calc.out.attempts = k
                  /\ Len(calc.out.waits) = k - 1
                  /\ calc.out.data = calc.feed[k].data


\* The payload is a non-empty mapping of codes to values of a numeric type.
PassesValidation(data) ==
    /\ "none" \notin DOMAIN data
    /\ "rates" \in DOMAIN data
    /\ data.rates.j = "dict"
    /\ DOMAIN data.rates.d # {}
    /\ \A c \in DOMAIN data.rates.d :
          data.rates.d[c].j \in {"num", "nan", "inf", "bool"}

\* C27: a sync invocation reaches the put only with a fetched payload that
\* passed the validation; the step of the put is its last, whether the put
\* succeeded or failed, so it makes no second put and no second fetch; a
\* failed put returns False and leaves the table as it was; and the table
\* changes only in the step of a put.
C27_OnePutNoRetry ==
    [][/\ \A p \in Syncers :
            /\ sync'[p].pc = "store" =>
                  /\ sync'[p].fetched
                  /\ PassesValidation(sync'[p].data)
                  /\ sync'[p].data = fetch_rates_from_frankfurter(sync'[p].feed).data
            /\ sync[p].pc = "done" => sync'[p] = sync[p]
            /\ (sync[p].pc = "store" /\ sync'[p] # sync[p]) =>
                  /\ sync'[p].pc = "done"
                  /\ sync'[p].feed = sync[p].feed
                  /\ \/ sync'[p].wrote /\ sync'[p].ret = "True"
                     \/ /\ ~sync'[p].wrote /\ sync'[p].ret = "False"
                        /\ rateCache' = rateCache
       /\ rateCache' # rateCache =>
             \E p \in Syncers : sync[p].pc = "store" /\ sync'[p].wrote]_vars

\* A sync with a valid payload in hand whose put met a store error on an empty
\* table: it has returned False and the table is still empty.
C27_Witness ==
    \E p \in Syncers :
        /\ sync[p].pc = "done" /\ sync[p].ret = "False" /\ sync[p].fetched
        /\ \A c \in DOMAIN RatesOf(Got(p)) : RatesOf(Got(p))[c].j = "num"
        /\ PassesValidation(Got(p))
        /\ ~sync[p].wrote /\ rateCache = <<>>


\* The stages of a call in their order: validation and snapshot lookup are
\* behind a call that waits for its audit write, all four behind one that
\* returned.
Rank(pc) == IF pc = "idle" THEN 0 ELSE IF pc = "audit" THEN 1 ELSE 2

\* C28: a convert call never goes back to an earlier stage; it scans the
\* snapshot table at most once, only after its validation passed, and puts to
\* the audit table at most once, only after its scan; once returned it does
\* nothing more; what it returns is a result with status 200, 400, 503 or
\* 500; and a call that has its snapshot does return.
C28_CallStages ==
    /\ [][\A c \in Calls :
            /\ Rank(conv'[c].pc) >= Rank(conv[c].pc)
            /\ conv[c].pc = "done" => conv'[c] = conv[c]
            /\ conv'[c].scans \in {0, 1} /\ conv'[c].scans >= conv[c].scans
            /\ conv'[c].puts \in {0, 1} /\ conv'[c].puts >= conv[c].puts
            /\ conv'[c].scans = 1 =>
                  ~AmountBad(conv'[c].req) /\ ~CodesBad(conv'[c].req)
            /\ conv'[c].puts = 1 => conv'[c].scans = 1 /\ conv'[c].pc = "done"
            /\ conv'[c].pc = "audit" => conv'[c].scans = 1
            /\ conv'[c].pc = "done" =>
                  /\ "status_code" \in DOMAIN conv'[c].resp
                  /\ conv'[c].resp.status_code \in {200, 400, 503, 500}]_vars
    /\ \A c \in Calls : (conv[c].pc = "audit") ~> (conv[c].pc = "done")

\* A call that went through all four stages and returned 200.
C28_Witness ==
    \E c \in Calls :
        /\ conv[c].pc = "done" /\ conv[c].scans = 1 /\ conv[c].puts = 1
        /\ conv[c].put /\ conv[c].resp.status_code = 200
        /\ conv[c].req.from = USD /\ conv[c].req.to = GBP


\* 0 < a <= 1,000,000,000 for a parsed amount a.
InRange(a) ==
    /\ a.ok
    /\ a.u > 0 \/ (a.u = 0 /\ a.m > 0)
    /\ a.u < MaxAmountUnits \/ (a.u = MaxAmountUnits /\ a.m = 0)

\* C29: the checks of a request with well-formed codes pass exactly when its
\* amount a parses and 0 < a <= 1,000,000,000; otherwise the result is the
\* validation error of the amount, with status 400.
C29_AmountRange ==
    (calc.stage = "checked" /\ ~CodesBad(calc.req)) =>
        IF InRange(calc.req.amount)
        THEN calc.out = NoResponse
        ELSE /\ calc.out # NoResponse
             /\ calc.out.status_code = 400
             /\ calc.out.error.msg = "Invalid amount. Must be a positive number."

\* The amount 1,000,000,000 with well-formed codes, accepted.
C29_Witness ==
    /\ calc.stage = "checked"
    /\ calc.req.amount = Parsed(MaxAmountUnits, 0)
    /\ calc.req.from = USD /\ calc.req.to = GBP
    /\ calc.out = NoResponse


\* C30: a well-formed call whose codes, trimmed and uppercased, are keys of
\* the rates of the snapshot it found is not refused for its codes, whatever
\* their letter case and surrounding whitespace, and the codes of its result
\* and of its audit record are the trimmed, uppercased ones.
C30_NormalizedCodes ==
    \A c \in Calls :
        (/\ Finished(c) /\ WellFormed(conv[c].req)
         /\ conv[c].snap # NoSnapshot
         /\ Norm(conv[c].req.from) \in DOMAIN conv[c].snap.Rates
         /\ Norm(conv[c].req.to) \in DOMAIN conv[c].snap.Rates) =>
            /\ conv[c].resp.status_code # 400
            /\ conv[c].resp.status_code = 200 =>
                  /\ conv[c].resp.from_currency = Norm(conv[c].req.from)
                  /\ conv[c].resp.to_currency = Norm(conv[c].req.to)
                  /\ LET rec == auditLog[conv[c].resp.audit_log_transaction_id]
                     IN /\ rec.FromCurrency = Norm(conv[c].req.from)
                        /\ rec.ToCurrency = Norm(conv[c].req.to)

\* The codes of the request reach the lookup as they are: upper-casing them
\* leaves nothing to trim.
Trimmed(req) == Upper(req.from) = Norm(req.from) /\ Upper(req.to) = Norm(req.to)

Unsupported(c) ==
    /\ conv[c].resp.status_code = 400
    /\ conv[c].resp.error.msg = "Currency not supported"

\* The branch of calculate_conversion a stored method stands for, in the
\* specification's names.
BranchOf(method) ==
    IF method = "eur_to_target" THEN "pivot_to_target"
    ELSE IF method = "source_to_eur" THEN "source_to_pivot"
    ELSE method

\* C31: a call that read a snapshot takes that snapshot's base_currency as the
\* pivot P: it refuses a code exactly when the code is neither P nor a key of
\* the rates, and the branch it computes with is the one that from, to and P
\* select, whatever base the snapshot has.
C31_PivotIsSnapshotBase ==
    \A c \in Calls :
        (/\ Finished(c) /\ WellFormed(conv[c].req) /\ Trimmed(conv[c].req)
         /\ conv[c].snap # NoSnapshot) =>
            LET P == conv[c].snap.BaseCurrency
                f == Norm(conv[c].req.from)
                t == Norm(conv[c].req.to)
            IN /\ Unsupported(c) <=>
                    \/ Unknown(conv[c].req.from, conv[c].snap)
                    \/ Unknown(conv[c].req.to, conv[c].snap)
               /\ Succeeded(c) =>
                    BranchOf(auditLog[conv[c].resp.audit_log_transaction_id]
                                 .CalculationMethod) = MethodOf(f, t, P)

\* The call that wrote the record: it made its put under this id.
WroteRecord(c, id) ==
    /\ Finished(c) /\ conv[c].puts = 1 /\ conv[c].put
    /\ conv[c].resp.audit_log_transaction_id = id

\* converted is the conversion rule applied to original with the two rates of
\* used and nothing else: the amount unchanged for one currency, and otherwise
\* original / rate(from) x rate(to), rounded once, half-up, to 2 decimals.
Replays(rec) ==
    LET a == Mills(rec.OriginalAmount)
        r == Mills(rec.ConvertedAmount) \div 10
        F == rec.RatesUsed[rec.FromCurrency].decimal
        T == rec.RatesUsed[rec.ToCurrency].decimal
    IN IF rec.FromCurrency = rec.ToCurrency
       THEN rec.ConvertedAmount = rec.OriginalAmount
       ELSE /\ rec.ConvertedAmount.m % 10 = 0
            /\ HalfUpOf(r, a * T, 10 * F)

\* The two rates of the record are those of the snapshot, under the record's
\* own currency codes.
RatesFrom(rec, snap) ==
    /\ DOMAIN rec.RatesUsed = {rec.FromCurrency, rec.ToCurrency}
    /\ \A k \in DOMAIN rec.RatesUsed :
          /\ k \in DOMAIN snap.Rates
          /\ rec.RatesUsed[k] = [decimal |-> snap.Rates[k]]

\* C32: every stored audit record names the snapshot its call read, holds
\* that snapshot's rates for from_currency and to_currency, and its
\* converted_amount is the conversion rule applied to its original_amount
\* with those two rates alone.
C32_AuditReplay ==
    \A id \in DOMAIN auditLog :
        \E c \in Calls :
            /\ WroteRecord(c, id)
            /\ auditLog[id].RateSnapshotID = conv[c].snap.RateSnapshotID
            /\ auditLog[id].OriginalAmount =
                  [u |-> conv[c].req.amount.u, m |-> conv[c].req.amount.m]
            /\ RatesFrom(auditLog[id], conv[c].snap)
            /\ Replays(auditLog[id])

\* C33: a step of convert, of the audit lookup or of the latest-rate lookup,
\* whether it succeeds or fails, leaves the stored snapshots as they were;
\* only a step of a sync invocation changes them.
C33_EngineReadsOnly ==
    [][(conv' # conv \/ calc' # calc \/ auditLog' # auditLog) =>
            rateCache' = rateCache]_vars

\* A convert call succeeded against a stored snapshot, after which the audit
\* lookup found its record and the store is as the call read it.
C33_Witness ==
    /\ Succeeded(1)
    /\ calc.stage = "audit" /\ calc.status = 200
    /\ conv[1].snap.RateSnapshotID \in DOMAIN rateCache
    /\ rateCache[conv[1].snap.RateSnapshotID] = conv[1].snap

\* The call ended in an internal failure: status 500.
InternalFailure(c) == Finished(c) /\ conv[c].resp.status_code = 500

\* C34: the error a convert call returns for an internal failure does not
\* depend on what failed: any two calls that failed internally, for whatever
\* causes, returned the same status and the same error body.
C34_GenericInternalError ==
    \A c, d \in Calls :
        (InternalFailure(c) /\ InternalFailure(d)) =>
            conv[c].resp = conv[d].resp

\* C35: the scheduled-execution handler answers statusCode 200 only when its
\* call of sync_rates (invocation 2) ran to its end and returned True, and
\* 500 otherwise: never 200 for a sync whose steps were not executed.
C35_HandlerReportsSync ==
    calc.stage = "lambda" =>
        /\ calc.statusCode \in {200, 500}
        /\ calc.statusCode = 200 =>
              /\ sync[2].pc = "done" /\ sync[2].ret = "True"
              /\ calc.success = "True"

\* The loop is inside a call of sync_rates it has just made.
Invoked == calc.stage = "sync" /\ sync[1] = IdleSync

\* The loop is not inside a call: it has made none yet, or its last call
\* returned success or failure or raised; and the model follows it further.
Due == calc.stage # "sync" /\ calc.round < MaxRounds

\* C36: in container mode the scheduled loop invokes sync again and again:
\* the first call is made, and after every call, whether it returned success
\* or failure or raised, a later call is eventually made; and what the loop
\* awaits is sync_rates itself, whose return value is what it logs.
C36_LoopKeepsSyncing ==
    /\ []((calc.stage # "sync" /\ calc.last \in {"True", "False"}) =>
            (sync[1].pc = "done" /\ sync[1].ret = calc.last))
    /\ Due ~> Invoked

\* A scheduled sync returned failure or raised, and the loop has made its
\* next call.
C36_Witness ==
    /\ Invoked /\ calc.round = MaxRounds
    /\ calc.last \in {"False", "raised"}

\* C37: the initial sync of startup is attempted at most 10 times and not
\* again after an attempt that succeeded; an attempt that raised is followed
\* by what follows one that returned failure; the delay is taken once between
\* two attempts and never after the last; and startup finishes, with or
\* without a successful attempt.
C37_StartupRetries ==
    /\ [](/\ calc.attempt \in 1..StartupRetries
          /\ calc.waits = calc.attempt - 1
          /\ calc.stage = "wait" => calc.attempt < StartupRetries
          /\ calc.last = "True" => calc.stage = "finished"
          /\ calc.stage = "finished" =>
                (calc.last = "True" \/ calc.attempt = StartupRetries)
          /\ calc.stage = "wait" => calc.last \in {"False", "raised"})
    /\ <>[](calc.stage = "finished")

\* Every attempt failed, the last by an exception, and startup is over.
C37_Witness ==
    /\ calc.stage = "finished" /\ calc.attempt = StartupRetries
    /\ calc.last = "raised"

====
